---- MODULE Spec2Model ----
(***************************************************************************)
(* A model of the custom-commander extension: the metadata extractor, the  *)
(* command loader, the recency list, the command registry with its picker, *)
(* the command executor and the file watcher handlers.                     *)
(*                                                                         *)
(* JavaScript strings are sequences of one-character strings, so that      *)
(* trimming, splitting and the regular-expression replacements are         *)
(* computed character by character.                                        *)
(***************************************************************************)
EXTENDS Integers, Sequences, FiniteSets, TLC

(***************************************************************************)
(* JavaScript values and string primitives                                 *)
(***************************************************************************)

\* JavaScript's undefined: a value that is no string (no sequence).
Undefined == "undefined"

\* The line terminator func.toString() is split on.
NL == "\n"

\* The characters String.prototype.trim removes that a source line can hold.
WhiteSpace == {" ", "\t", "\r"}

LowerCase == <<"a","b","c","d","e","f","g","h","i","j","k","l","m",
               "n","o","p","q","r","s","t","u","v","w","x","y","z">>

UpperCase == <<"A","B","C","D","E","F","G","H","I","J","K","L","M",
               "N","O","P","Q","R","S","T","U","V","W","X","Y","Z">>

\* The character class [A-Z].
IsUpper(c) == \E i \in DOMAIN UpperCase : UpperCase[i] = c

\* String.prototype.toUpperCase on one character.
ToUpperCase(c) ==
  IF \E i \in DOMAIN LowerCase : LowerCase[i] = c
    THEN UpperCase[CHOOSE i \in DOMAIN LowerCase : LowerCase[i] = c]
    ELSE c

RECURSIVE TrimStart(_)
TrimStart(s) ==
  IF s # <<>> /\ Head(s) \in WhiteSpace THEN TrimStart(Tail(s)) ELSE s

RECURSIVE TrimEnd(_)
TrimEnd(s) ==
  IF s # <<>> /\ s[Len(s)] \in WhiteSpace
    THEN TrimEnd(SubSeq(s, 1, Len(s) - 1))
    ELSE s

\* String.prototype.trim.
Trim(s) == TrimEnd(TrimStart(s))

\* String.prototype.startsWith.
StartsWith(s, p) == Len(s) >= Len(p) /\ SubSeq(s, 1, Len(p)) = p

\* The 1-based positions at which p occurs in s.
Occurrences(s, p) ==
  {i \in 1..(Len(s) - Len(p) + 1) : SubSeq(s, i, i + Len(p) - 1) = p}

\* String.prototype.includes.
Includes(s, p) == Occurrences(s, p) # {}

FirstOccurrence(s, p) ==
  CHOOSE i \in Occurrences(s, p) : \A j \in Occurrences(s, p) : i <= j

\* String.prototype.replace with a string pattern: the first occurrence only.
ReplaceFirst(s, p, r) ==
  IF ~Includes(s, p) THEN s
  ELSE LET i == FirstOccurrence(s, p)
       IN SubSeq(s, 1, i - 1) \o r \o SubSeq(s, i + Len(p), Len(s))

\* String.prototype.split with a non-empty string separator.
RECURSIVE Split(_, _)
Split(s, sep) ==
  IF ~Includes(s, sep) THEN <<s>>
  ELSE LET i == FirstOccurrence(s, sep)
       IN <<SubSeq(s, 1, i - 1)>> \o Split(SubSeq(s, i + Len(sep), Len(s)), sep)

\* Array.prototype.map.
MapSeq(arr, F(_)) == [i \in DOMAIN arr |-> F(arr[i])]

\* Array.prototype.indexOf: the 0-based index of the first x, -1 when absent.
ArrayIndexOf(arr, x) ==
  IF \E i \in DOMAIN arr : arr[i] = x
    THEN (CHOOSE i \in DOMAIN arr :
            arr[i] = x /\ \A j \in DOMAIN arr : arr[j] = x => i <= j) - 1
    ELSE -1

\* Array.prototype.includes.
ArrayIncludes(arr, x) == \E i \in DOMAIN arr : arr[i] = x

\* A value is truthy for `||` unless it is undefined or the empty string.
Truthy(v) == v # Undefined /\ v # <<>>

(***************************************************************************)
(* extractMetaFromFunction                                                 *)
(***************************************************************************)

paramPrefix == <<"/", "/", " ", "~">>

KeyValueSep == <<":", " ">>

NameKey == <<"n", "a", "m", "e">>

DescriptionKey == <<"d", "e", "s", "c", "r", "i", "p", "t", "i", "o", "n">>

\* The lines of the source text that pass the filter, trimmed.
DirectiveLines(func) ==
  SelectSeq(MapSeq(Split(func, <<NL>>), Trim),
            LAMBDA x : StartsWith(x, paramPrefix) /\ Includes(x, KeyValueSep))

\* .map((x) => x.replace(paramPrefix, "").split(": "))
DirectivePieces(x) == Split(ReplaceFirst(x, paramPrefix, <<>>), KeyValueSep)

\* The reduce step acc[key] = value with [key, value] the first two pieces.
RECURSIVE ReduceMeta(_, _)
ReduceMeta(acc, lines) ==
  IF lines = <<>> THEN acc
  ELSE LET pieces == DirectivePieces(Head(lines))
           key    == pieces[1]
           value  == IF Len(pieces) >= 2 THEN pieces[2] ELSE Undefined
       IN ReduceMeta([k \in (DOMAIN acc) \cup {key} |->
                        IF k = key THEN value ELSE acc[k]],
                     Tail(lines))

EmptyObject == [k \in {} |-> Undefined]

FoundMeta(func) == ReduceMeta(EmptyObject, DirectiveLines(func))

\* Property read on the plain object foundMeta.
GetMeta(obj, key) == IF key \in DOMAIN obj THEN obj[key] ELSE Undefined

\* A variant that inserts nothing: the regular expression without its `g`
\* flag and an identifier whose first capital comes late would look so.
SpaceBeforeUpperNone(s) == s

\* funcName.replace(/([A-Z])/g, " $1")
RECURSIVE SpaceBeforeUpper(_)
SpaceBeforeUpper(s) ==
  IF s = <<>> THEN <<>>
  ELSE (IF IsUpper(Head(s)) THEN <<" ", Head(s)>> ELSE <<Head(s)>>)
       \o SpaceBeforeUpper(Tail(s))

\* .replace(/^./, (str) => str.toUpperCase()): `.` matches no line terminator.
CapitalizeFirst(s) ==
  IF s = <<>> \/ Head(s) \in {"\n", "\r"} THEN s
  ELSE <<ToUpperCase(Head(s))>> \o Tail(s)

DerivedName(funcName) == CapitalizeFirst(SpaceBeforeUpper(funcName))

ExecutePrefix == <<"E", "x", "e", "c", "u", "t", "e", " ">>

FunctionSuffix == <<" ", "f", "u", "n", "c", "t", "i", "o", "n">>

extractMetaFromFunction(funcName, func) ==
  LET foundMeta == FoundMeta(func)
      name == IF Truthy(GetMeta(foundMeta, NameKey))
                THEN GetMeta(foundMeta, NameKey)
                ELSE DerivedName(funcName)
  IN [name |-> name,
      description |-> IF Truthy(GetMeta(foundMeta, DescriptionKey))
                        THEN GetMeta(foundMeta, DescriptionKey)
                        ELSE ExecutePrefix \o name \o FunctionSuffix]

(***************************************************************************)
(* Bounds and inputs of the model                                          *)
(***************************************************************************)

\* Pending file watcher events the host may hold undelivered.
MaxEvents == 1

\* Command invocations (picker prompts, pending callables) in flight at once
\* in the specification Spec.
MaxTasks == 1

\* The same in the specification SpecExec, whose claims are about
\* executions that overlap.
MaxOverlap == 2

\* Text editors the user can switch between (0 is "no active editor").
MaxEditors == 1

\* Selection ranges the user can set in an editor.
MaxSelections == 2

FnA == <<"a">>

FnB == <<"b">>

FnC == <<"c", "D">>

PlainSource == <<"(", ")", "=", ">", "1">>

\* A source text with a name directive on an indented line of its own.
NamedSource ==
  <<"(", ")", "{", NL, " ">> \o paramPrefix \o NameKey \o KeyValueSep
    \o <<"N", "1">> \o <<NL, "}">>

\* A source text with a name and a description directive.
DescribedSource ==
  <<"(", ")", "{", NL, " ">> \o paramPrefix \o NameKey \o KeyValueSep
    \o <<"N", "2">> \o <<NL, " ">> \o paramPrefix \o DescriptionKey
    \o KeyValueSep \o <<"D", "2">> \o <<NL, "}">>

\* The contents the definitions file can have: whether evaluating the module
\* throws, and module.exports as [funcName, callable, source text] in
\* Object.entries order. The first is the starter template (two callables,
\* the second with both directives), with its texts shortened.
Modules ==
  << [throws |-> FALSE,
      exports |-> << [funcName |-> FnA, callable |-> TRUE, source |-> PlainSource],
                     [funcName |-> FnB, callable |-> TRUE, source |-> DescribedSource] >>],
     [throws |-> FALSE,
      exports |-> << [funcName |-> FnB, callable |-> TRUE, source |-> NamedSource],
                     [funcName |-> FnC, callable |-> FALSE, source |-> PlainSource],
                     [funcName |-> FnA, callable |-> TRUE, source |-> PlainSource] >>],
     [throws |-> TRUE, exports |-> <<>>],
     [throws |-> FALSE,
      exports |-> << [funcName |-> FnA, callable |-> TRUE, source |-> PlainSource],
                     [funcName |-> FnB, callable |-> TRUE, source |-> NamedSource],
                     [funcName |-> FnC, callable |-> TRUE, source |-> PlainSource] >>] >>

\* The module custom-commander.template.js holds.
TemplateModule == 1

\* A module of three callables.
ThreeModule == 4

\* 0 stands for "the definitions file does not exist".
NoFile == 0

\* The contents the file takes in the specification Spec.
CoreModules == {1, 2, 3}

(***************************************************************************)
(* State                                                                   *)
(***************************************************************************)

VARIABLES
  phase,                    \* "inactive", "active" or "deactivated"
  hasWorkspace,             \* vscode.workspace.workspaceFolders?.[0] exists
  file,                     \* the definitions file on disk
  events,                   \* watcher events not yet delivered, oldest first
  customCommands,           \* the Map, as its entries in insertion order
  customCommandDisposables, \* the tokens of the registrations the array holds
  recentlyUsedCommands,     \* command ids, most recent first
  hostCommands,             \* the host's active registrations, oldest first
  activeTextEditor,         \* vscode.window.activeTextEditor, 0 when none
  selection,                \* the active editor's selection
  tasks,                    \* the invocations in flight
  last,                     \* the handler step taken last, with its inputs
  out,                      \* what that step showed to the user or effected
  input,                    \* the input of the pure function under check
  output                    \* its result

vars == <<phase, hasWorkspace, file, events, customCommands,
          customCommandDisposables, recentlyUsedCommands, hostCommands,
          activeTextEditor, selection, tasks, last, out,
          input, output>>

\* What no step of the program changes.
fixed == <<hasWorkspace, input, output>>

progVars == <<phase, hasWorkspace, file, events, customCommands,
              customCommandDisposables, recentlyUsedCommands, hostCommands,
              activeTextEditor, selection, tasks, last, out>>

(***************************************************************************)
(* getCommandsFilePath, loadCustomCommands                                 *)
(***************************************************************************)

\* `custom-commander.custom.${funcName}`: the fixed prefix followed by the
\* export name, kept as the pair of the two parts.
CommandId(funcName) == <<"custom-commander.custom.", funcName>>

\* The picker's id, in the same form: the prefix and the rest.
PickerId == <<"custom-commander.", "pickCustomCommand">>

\* null when no workspace folder is open, else the one fixed path.
getCommandsFilePath(ws) == IF ws THEN "custom-commander.js" ELSE Undefined

\* fs.existsSync(commandsPath)
existsSync(f) == f # NoFile

\* Whether loadCustomCommands reaches require(commandsPath).
LoadAttempted(ws, f) == getCommandsFilePath(ws) # Undefined /\ existsSync(f)

\* The entry customCommands.set stores for one callable export. The callable
\* is a new function object on every evaluation of the module; it is named by
\* the module content that defined it and its export name.
CommandEntry(f, ex) ==
  LET meta == extractMetaFromFunction(ex.funcName, ex.source)
  IN [id |-> CommandId(ex.funcName),
      func |-> [module |-> f, export |-> ex.funcName],
      name |-> meta.name,
      description |-> meta.description]

\* A variant without the typeof test: an entry for every export.
ModuleCommandsAll(f) ==
  [i \in DOMAIN Modules[f].exports |-> CommandEntry(f, Modules[f].exports[i])]

\* The Map after loadCustomCommands: cleared, then one entry per callable
\* export in Object.entries order; empty when there is no path, no file, or
\* the require throws.
ModuleCommands(f) ==
  LET callables == SelectSeq(Modules[f].exports, LAMBDA ex : ex.callable)
  IN [i \in DOMAIN callables |-> CommandEntry(f, callables[i])]

\* The loop of loadCustomCommands over Object.entries, for each content.
CommandsOfModule == [f \in DOMAIN Modules |-> ModuleCommands(f)]

LoadedCommands(ws, f) ==
  IF ~LoadAttempted(ws, f) \/ Modules[f].throws THEN <<>>
  ELSE CommandsOfModule[f]

\* A variant whose catch block shows nothing.
LoadMessagesNone(ws, f) == <<>>

\* What loadCustomCommands shows: the error message of the catch block.
LoadMessages(ws, f) ==
  IF LoadAttempted(ws, f) /\ Modules[f].throws
    THEN << [kind |-> "error", text |-> "Error loading custom-commander.js"] >>
    ELSE <<>>

\* Array.from(customCommands.keys())
Keys(cmds) == [i \in DOMAIN cmds |-> cmds[i].id]

\* customCommands.has / get
HasCommand(cmds, id) == \E i \in DOMAIN cmds : cmds[i].id = id

GetCommand(cmds, id) == cmds[CHOOSE i \in DOMAIN cmds : cmds[i].id = id]

(***************************************************************************)
(* updateRecentlyUsedCommands (the list part)                              *)
(***************************************************************************)

\* A variant without the splice: the id is only put in front.
TouchedKeepingOld(recent, commandId) == <<commandId>> \o recent

\* A variant that pushes the id at the end instead of the front.
TouchedAtEnd(recent, commandId) ==
  SelectSeq(recent, LAMBDA x : x # commandId) \o <<commandId>>

\* splice(existingIndex, 1) when present, then unshift(commandId).
Touched(recent, commandId) ==
  LET existingIndex == ArrayIndexOf(recent, commandId)
      removed == IF existingIndex > -1
                   THEN SubSeq(recent, 1, existingIndex)
                        \o SubSeq(recent, existingIndex + 2, Len(recent))
                   ELSE recent
  IN <<commandId>> \o removed

(***************************************************************************)
(* registerCustomCommands                                                  *)
(***************************************************************************)

\* A variant that subtracts the indexes whether or not an id is in the list.
CompareByIndexOnly(a, b, recent) ==
  ArrayIndexOf(recent, a) - ArrayIndexOf(recent, b)

\* The comparator given to Array.prototype.sort.
CompareByRecency(a, b, recent) ==
  LET aIndex == ArrayIndexOf(recent, a)
      bIndex == ArrayIndexOf(recent, b)
  IN IF aIndex # -1 /\ bIndex # -1 THEN aIndex - bIndex
     ELSE IF aIndex # -1 THEN -1
     ELSE IF bIndex # -1 THEN 1
     ELSE 0

\* One insertion of the stable insertion sort the engine runs on short
\* arrays: x goes after the last element that does not compare greater.
RECURSIVE InsertByRecency(_, _, _)
InsertByRecency(sorted, x, recent) ==
  IF sorted = <<>> \/ CompareByRecency(sorted[Len(sorted)], x, recent) <= 0
    THEN Append(sorted, x)
    ELSE Append(InsertByRecency(SubSeq(sorted, 1, Len(sorted) - 1), x, recent),
                sorted[Len(sorted)])

RECURSIVE SortByRecency(_, _)
SortByRecency(ids, recent) ==
  IF ids = <<>> THEN <<>>
  ELSE InsertByRecency(SortByRecency(SubSeq(ids, 1, Len(ids) - 1), recent),
                       ids[Len(ids)], recent)

OrderedCommandIds(cmds, recent) == SortByRecency(Keys(cmds), recent)

\* A variant that disposes nothing.
DisposeNothing(host, disposables) == host

\* disposable.dispose() for every element of customCommandDisposables:
\* the registrations the array holds leave the host; a second dispose of
\* the same registration does nothing.
DisposeAll(host, disposables) ==
  SelectSeq(host, LAMBDA r : ~ArrayIncludes(disposables, r.token))

\* The identity of a new registration: a token no active registration has.
FreshToken(host) ==
  CHOOSE n \in 0..Len(host) :
    /\ \A i \in DOMAIN host : host[i].token # n
    /\ \A m \in 0..Len(host) :
         (\A i \in DOMAIN host : host[i].token # m) => n <= m

\* vscode.commands.registerCommand(id, handler): `captured` is what the
\* handler's closure holds besides the id (the picker's orderedCommandIds).
registerCommand(host, id, captured) ==
  Append(host, [token |-> FreshToken(host), id |-> id, captured |-> captured])

\* The loop registering each custom command in order, pushing each disposable.
RECURSIVE RegisterEach(_, _)
RegisterEach(reg, ids) ==
  IF ids = <<>> THEN reg
  ELSE LET host2 == registerCommand(reg.host, Head(ids), <<>>)
       IN RegisterEach([host |-> host2,
                        disposables |-> Append(reg.disposables,
                                               host2[Len(host2)].token)],
                       Tail(ids))

\* registerCustomCommands: the host registrations and the disposables array
\* it leaves.
registerCustomCommands(host, disposables, cmds, recent) ==
  LET orderedCommandIds == OrderedCommandIds(cmds, recent)
      cleared == [host |-> DisposeAll(host, disposables), disposables |-> <<>>]
      custom == RegisterEach(cleared, orderedCommandIds)
      host2 == registerCommand(custom.host, PickerId, orderedCommandIds)
  IN [host |-> host2,
      disposables |-> Append(custom.disposables, host2[Len(host2)].token)]

(***************************************************************************)
(* reloadCommands                                                          *)
(***************************************************************************)

StatusReloaded(n) == [kind |-> "status", text |-> "Reloaded", count |-> n]

\* A variant that registers as if nothing had been used.
ReloadForgettingRecency(silent, recent, before) ==
  LET cmds == LoadedCommands(hasWorkspace, file)
      reg == registerCustomCommands(hostCommands, customCommandDisposables,
                                    cmds, <<>>)
  IN /\ customCommands' = cmds
     /\ hostCommands' = reg.host
     /\ customCommandDisposables' = reg.disposables
     /\ out' = before \o LoadMessages(hasWorkspace, file)
                 \o (IF silent THEN <<>> ELSE <<StatusReloaded(Len(cmds))>>)

\* reloadCommands(silent) with the recency list `recent`: runs to completion
\* without suspending (the function is async but awaits nothing). `before`
\* is what the calling step showed before the reload.
ReloadCommands(silent, recent, before) ==
  LET cmds == LoadedCommands(hasWorkspace, file)
      reg == registerCustomCommands(hostCommands, customCommandDisposables,
                                    cmds, recent)
  IN /\ customCommands' = cmds
     /\ hostCommands' = reg.host
     /\ customCommandDisposables' = reg.disposables
     /\ out' = before \o LoadMessages(hasWorkspace, file)
                 \o (IF silent THEN <<>> ELSE <<StatusReloaded(Len(cmds))>>)

\* A variant that updates the list and reloads nothing.
UpdateWithoutReload(commandId) ==
  /\ recentlyUsedCommands' = Touched(recentlyUsedCommands, commandId)
  /\ out' = <<>>
  /\ UNCHANGED <<customCommands, hostCommands, customCommandDisposables>>

\* updateRecentlyUsedCommands(commandId): the list, then reloadCommands(true).
UpdateRecentlyUsedCommands(commandId) ==
  LET recent == Touched(recentlyUsedCommands, commandId)
  IN /\ recentlyUsedCommands' = recent
     /\ ReloadCommands(TRUE, recent, <<>>)

(***************************************************************************)
(* Initial state: the module just loaded, before activate                  *)
(***************************************************************************)

Idle == [pc |-> "idle"]

NoInput == [done |-> FALSE]

InitProgram(mods, slots) ==
  /\ phase = "inactive"
  /\ hasWorkspace \in BOOLEAN
  /\ file \in (IF hasWorkspace THEN {NoFile} \cup mods ELSE {NoFile})
  /\ events = <<>>
  /\ customCommands = <<>>
  /\ customCommandDisposables = <<>>
  /\ recentlyUsedCommands = <<>>
  /\ hostCommands = <<>>
  /\ activeTextEditor = 0
  /\ selection = 1
  /\ tasks = [t \in 1..slots |-> Idle]
  /\ last = [op |-> "init"]
  /\ out = <<>>

Init ==
  /\ InitProgram(CoreModules, MaxTasks)
  /\ input = NoInput
  /\ output = NoInput

(***************************************************************************)
(* activate, deactivate, the watcher handlers, the reload command          *)
(***************************************************************************)

\* activate(context): load, register the built-in commands, register the
\* custom commands, create the watcher when there is a commands path.
Activate ==
  /\ UNCHANGED fixed
  /\ phase = "inactive"
  /\ phase' = "active"
  /\ LET cmds == LoadedCommands(hasWorkspace, file)
         reg == registerCustomCommands(hostCommands, customCommandDisposables,
                                       cmds, recentlyUsedCommands)
     IN /\ customCommands' = cmds
        /\ hostCommands' = reg.host
        /\ customCommandDisposables' = reg.disposables
        /\ out' = LoadMessages(hasWorkspace, file)
  /\ last' = [op |-> "activate"]
  /\ UNCHANGED <<file, events, recentlyUsedCommands,
                 activeTextEditor, selection, tasks>>

\* deactivate(): every disposable of the array is disposed; the array is
\* kept. The host then disposes context.subscriptions: the built-in
\* commands and the watcher, with the events it had not delivered.
Deactivate ==
  /\ UNCHANGED fixed
  /\ phase = "active"
  /\ phase' = "deactivated"
  /\ hostCommands' = DisposeAll(hostCommands, customCommandDisposables)
  /\ events' = <<>>
  /\ last' = [op |-> "deactivate"]
  /\ out' = <<>>
  /\ UNCHANGED <<file, customCommands, customCommandDisposables,
                 recentlyUsedCommands, activeTextEditor, selection, tasks>>

\* The watcher exists when activate found a commands path and until the
\* host disposes it.
Watching == phase = "active" /\ getCommandsFilePath(hasWorkspace) # Undefined

\* The watcher event a write of the file raises.
WriteEvent == IF file = NoFile THEN "create" ELSE "change"

Notify(ev) == IF Watching THEN Append(events, ev) ELSE events

\* The user (or a tool) writes the definitions file.
WriteFile(m) ==
  /\ UNCHANGED fixed
  /\ phase # "inactive"
  /\ hasWorkspace
  /\ Len(events) < MaxEvents
  /\ file' = m
  /\ events' = Notify(WriteEvent)
  /\ last' = [op |-> "write"]
  /\ out' = <<>>
  /\ UNCHANGED <<phase, customCommands, customCommandDisposables,
                 recentlyUsedCommands, hostCommands, activeTextEditor,
                 selection, tasks>>

\* The definitions file is deleted.
DeleteFile ==
  /\ UNCHANGED fixed
  /\ phase # "inactive"
  /\ hasWorkspace
  /\ file # NoFile
  /\ Len(events) < MaxEvents
  /\ file' = NoFile
  /\ events' = Notify("delete")
  /\ last' = [op |-> "unlink"]
  /\ out' = <<>>
  /\ UNCHANGED <<phase, customCommands, customCommandDisposables,
                 recentlyUsedCommands, hostCommands, activeTextEditor,
                 selection, tasks>>

\* watcher.onDidChange / onDidCreate: reloadCommands().
OnDidChangeOrCreate ==
  /\ UNCHANGED fixed
  /\ Watching
  /\ events # <<>>
  /\ Head(events) \in {"change", "create"}
  /\ events' = Tail(events)
  /\ ReloadCommands(FALSE, recentlyUsedCommands, <<>>)
  /\ last' = [op |-> "onDidChangeOrCreate"]
  /\ UNCHANGED <<phase, file, recentlyUsedCommands,
                 activeTextEditor, selection, tasks>>

\* A variant of the delete handler that registers again without clearing.
OnDidDeleteKeeping ==
  /\ UNCHANGED fixed
  /\ Watching
  /\ events # <<>>
  /\ Head(events) = "delete"
  /\ events' = Tail(events)
  /\ LET reg == registerCustomCommands(hostCommands, customCommandDisposables,
                                       customCommands, recentlyUsedCommands)
     IN /\ hostCommands' = reg.host
        /\ customCommandDisposables' = reg.disposables
  /\ last' = [op |-> "onDidDelete"]
  /\ out' = <<>>
  /\ UNCHANGED <<phase, file, customCommands, recentlyUsedCommands,
                 activeTextEditor, selection, tasks>>

\* A variant of the delete handler that clears without registering again.
OnDidDeleteClearOnly ==
  /\ UNCHANGED fixed
  /\ Watching
  /\ events # <<>>
  /\ Head(events) = "delete"
  /\ events' = Tail(events)
  /\ customCommands' = <<>>
  /\ last' = [op |-> "onDidDelete"]
  /\ out' = <<>>
  /\ UNCHANGED <<phase, file, hostCommands, customCommandDisposables,
                 recentlyUsedCommands, activeTextEditor, selection, tasks>>

\* watcher.onDidDelete: customCommands.clear(); registerCustomCommands(context).
OnDidDelete ==
  /\ UNCHANGED fixed
  /\ Watching
  /\ events # <<>>
  /\ Head(events) = "delete"
  /\ events' = Tail(events)
  /\ LET reg == registerCustomCommands(hostCommands, customCommandDisposables,
                                       <<>>, recentlyUsedCommands)
     IN /\ customCommands' = <<>>
        /\ hostCommands' = reg.host
        /\ customCommandDisposables' = reg.disposables
  /\ last' = [op |-> "onDidDelete"]
  /\ out' = <<>>
  /\ UNCHANGED <<phase, file, recentlyUsedCommands,
                 activeTextEditor, selection, tasks>>

\* The built-in command custom-commander.reloadCommands: reloadCommands is
\* itself the handler, so the first argument the caller of the command
\* gives, if any, is its parameter `silent` (false by default).
ReloadCommand(silent) ==
  /\ UNCHANGED fixed
  /\ phase = "active"
  /\ ReloadCommands(silent, recentlyUsedCommands, <<>>)
  /\ last' = [op |-> "reloadCommand", silent |-> silent]
  /\ UNCHANGED <<phase, file, events, recentlyUsedCommands,
                 activeTextEditor, selection, tasks>>

\* The user switches to another editor, or to none.
SetActiveEditor(e) ==
  /\ UNCHANGED fixed
  /\ phase # "inactive"
  /\ e # activeTextEditor
  /\ activeTextEditor' = e
  /\ selection' = 1
  /\ last' = [op |-> "editor"]
  /\ out' = <<>>
  /\ UNCHANGED <<phase, file, events, customCommands,
                 customCommandDisposables, recentlyUsedCommands, hostCommands,
                 tasks>>

\* The user changes the selection of the active editor.
SetSelection(sel) ==
  /\ UNCHANGED fixed
  /\ phase # "inactive"
  /\ activeTextEditor # 0
  /\ sel # selection
  /\ selection' = sel
  /\ last' = [op |-> "selection"]
  /\ out' = <<>>
  /\ UNCHANGED <<phase, file, events, customCommands,
                 customCommandDisposables, recentlyUsedCommands, hostCommands,
                 activeTextEditor, tasks>>

(***************************************************************************)
(* executeCustomCommand                                                    *)
(***************************************************************************)

\* A slot for a new invocation: the lowest one not in use.
HasFreeTask == \E t \in DOMAIN tasks : tasks[t].pc = "idle"

FreeTask ==
  CHOOSE t \in DOMAIN tasks :
    tasks[t].pc = "idle"
      /\ \A u \in DOMAIN tasks : tasks[u].pc = "idle" => t <= u

NotFoundMessage == [kind |-> "error", text |-> "Custom command not found"]

\* A variant that touches the recency list before it looks the command up.
ExecuteTouchingFirst(t, commandId) ==
  LET recent == Touched(recentlyUsedCommands, commandId)
  IN /\ recentlyUsedCommands' = recent
     /\ IF ~HasCommand(customCommands, commandId)
          THEN /\ ReloadCommands(TRUE, recent, <<NotFoundMessage>>)
               /\ tasks' = [tasks EXCEPT ![t] = Idle]
               /\ last' = [op |-> "execute", id |-> commandId,
                           found |-> FALSE]
          ELSE /\ ReloadCommands(TRUE, recent, <<>>)
               /\ tasks' = [tasks EXCEPT ![t] =
                              [pc |-> "func",
                               command |-> GetCommand(customCommands, commandId),
                               editor |-> activeTextEditor,
                               selection |-> IF activeTextEditor = 0
                                               THEN 0 ELSE selection,
                               before |-> recentlyUsedCommands]]
               /\ last' = [op |-> "execute", id |-> commandId,
                           found |-> TRUE]
     /\ UNCHANGED <<phase, file, events, activeTextEditor, selection>>

\* executeCustomCommand(commandId) up to `await command.func(selectedText)`:
\* the lookup, the early return, updateRecentlyUsedCommands with its silent
\* reload, the capture of the editor and its selection, the call. The
\* suspended function holds command, editor and selection, and for the
\* record of its completion the recency list as the execution found it.
ExecuteCustomCommand(t, commandId) ==
  IF ~HasCommand(customCommands, commandId)
    THEN /\ tasks' = [tasks EXCEPT ![t] = Idle]
         /\ last' = [op |-> "execute", id |-> commandId,
                     found |-> FALSE]
         /\ out' = <<NotFoundMessage>>
         /\ UNCHANGED <<phase, file, events, customCommands,
                        customCommandDisposables, recentlyUsedCommands,
                        hostCommands, activeTextEditor, selection>>
    ELSE LET command == GetCommand(customCommands, commandId)
         IN /\ UpdateRecentlyUsedCommands(commandId)
            /\ tasks' = [tasks EXCEPT ![t] =
                           [pc |-> "func",
                            command |-> command,
                            editor |-> activeTextEditor,
                            selection |-> IF activeTextEditor = 0
                                            THEN 0 ELSE selection,
                            before |-> recentlyUsedCommands]]
            /\ last' = [op |-> "execute", id |-> commandId,
                        found |-> TRUE]
            /\ UNCHANGED <<phase, file, events,
                           activeTextEditor, selection>>

\* The host runs the handler of an active registration of a custom command.
InvokeCommand(i) ==
  /\ UNCHANGED fixed
  /\ i \in DOMAIN hostCommands
  /\ hostCommands[i].id # PickerId
  /\ HasFreeTask
  /\ ExecuteCustomCommand(FreeTask, hostCommands[i].id)

\* What a callable can do: throw or reject, resolve with undefined, with
\* null, or with a value whose popup, replace and clipboard properties are
\* each defined or not.
Results ==
  [kind : {"value"}, popup : BOOLEAN, replace : BOOLEAN, clipboard : BOOLEAN]

Outcomes == {[kind |-> "throw"], [kind |-> "undefined"], [kind |-> "null"]}
              \cup Results

\* A variant whose message does not name the command.
ErrorInUnnamed(command) == [kind |-> "error", text |-> "Error in", name |-> <<>>]

ErrorIn(command) == [kind |-> "error", text |-> "Error in", name |-> command.name]

PopupMessage == [kind |-> "info", text |-> "popup"]

ReplaceEffect(editor, sel) ==
  [kind |-> "replace", editor |-> editor, selection |-> sel]

ClipboardEffect == [kind |-> "clipboard"]

CopiedMessage == [kind |-> "status", text |-> "Copied to clipboard"]

\* The record of a step of an execution: the command, the callable's
\* outcome, whether an editor was captured, the effects the execution has
\* performed so far, and whether the execution is over with this step.
ExecutionStep(op, id, outcome, editor, fx, settled) ==
  [op |-> op, id |-> id, outcome |-> outcome, editor |-> editor,
   fx |-> fx, settled |-> settled]

\* The record of the step that handles the callable's completion: it also
\* tells what the recency list was when the execution began.
CompletionStep(task, outcome, fx, settled) ==
  [op |-> "complete", id |-> task.command.id, outcome |-> outcome,
   editor |-> task.editor, fx |-> fx, settled |-> settled,
   before |-> task.before]

\* A variant that replaces the selection the active editor has now.
ReplaceTargetCurrent(task) == ReplaceEffect(activeTextEditor, selection)

\* editor.edit(... editBuilder.replace(selection, ...)) with the constants
\* `editor` and `selection` of the suspended function.
ReplaceTarget(task) == ReplaceEffect(task.editor, task.selection)

\* A variant that replaces the selection without looking for an editor.
ReplaceAppliesAnywhere(result, editor) == result.replace

\* `replace !== undefined && editor`.
ReplaceApplies(result, editor) == result.replace /\ editor # 0

\* The awaited callable completes: the catch block, the early return on
\* undefined, the destructuring (which throws on null), the popup, and the
\* call of editor.edit or else of clipboard.writeText. Past this step the
\* suspended function holds the result and, for this record, the effects
\* it has performed.
CompleteCallable(t, outcome) ==
  /\ UNCHANGED fixed
  /\ tasks[t].pc = "func"
  /\ LET task == tasks[t]
         id == task.command.id
         shown == IF outcome.kind = "value" /\ outcome.popup
                    THEN <<PopupMessage>> ELSE <<>>
         fx1 == IF outcome.kind = "value" /\ outcome.popup
                  THEN <<"popup">> ELSE <<>>
     IN IF outcome.kind \in {"throw", "null"}
          THEN /\ out' = <<ErrorIn(task.command)>>
               /\ tasks' = [tasks EXCEPT ![t] = Idle]
               /\ last' = CompletionStep(task, outcome, <<>>, TRUE)
        ELSE IF outcome.kind = "undefined"
          THEN /\ out' = <<>>
               /\ tasks' = [tasks EXCEPT ![t] = Idle]
               /\ last' = CompletionStep(task, outcome, <<>>, TRUE)
        ELSE IF ReplaceApplies(outcome, task.editor)
          THEN /\ out' = shown \o <<ReplaceTarget(task)>>
               /\ tasks' = [tasks EXCEPT ![t] =
                              [pc |-> "edit", id |-> id, result |-> outcome,
                               editor |-> task.editor,
                               fx |-> fx1 \o <<"replace">>]]
               /\ last' = CompletionStep(task, outcome, fx1 \o <<"replace">>, FALSE)
        ELSE IF outcome.clipboard
          THEN /\ out' = shown \o <<ClipboardEffect>>
               /\ tasks' = [tasks EXCEPT ![t] =
                              [pc |-> "clip", id |-> id, result |-> outcome,
                               editor |-> task.editor,
                               fx |-> fx1 \o <<"clipboard">>]]
               /\ last' = CompletionStep(task, outcome, fx1 \o <<"clipboard">>, FALSE)
        ELSE /\ out' = shown
             /\ tasks' = [tasks EXCEPT ![t] = Idle]
             /\ last' = CompletionStep(task, outcome, fx1, TRUE)
  /\ UNCHANGED <<phase, file, events, customCommands,
                 customCommandDisposables, recentlyUsedCommands, hostCommands,
                 activeTextEditor, selection>>

\* `await editor.edit(...)` completes: the clipboard part follows.
EditDone(t) ==
  /\ UNCHANGED fixed
  /\ tasks[t].pc = "edit"
  /\ LET task == tasks[t]
     IN IF task.result.clipboard
          THEN /\ out' = <<ClipboardEffect>>
               /\ tasks' = [tasks EXCEPT ![t] =
                              [task EXCEPT !.pc = "clip",
                                           !.fx = task.fx \o <<"clipboard">>]]
               /\ last' = ExecutionStep("editDone", task.id, task.result,
                                        task.editor,
                                        task.fx \o <<"clipboard">>, FALSE)
          ELSE /\ out' = <<>>
               /\ tasks' = [tasks EXCEPT ![t] = Idle]
               /\ last' = ExecutionStep("editDone", task.id, task.result,
                                        task.editor, task.fx, TRUE)
  /\ UNCHANGED <<phase, file, events, customCommands,
                 customCommandDisposables, recentlyUsedCommands, hostCommands,
                 activeTextEditor, selection>>

\* `await vscode.env.clipboard.writeText(...)` completes: the status message.
ClipDone(t) ==
  /\ UNCHANGED fixed
  /\ tasks[t].pc = "clip"
  /\ out' = <<CopiedMessage>>
  /\ tasks' = [tasks EXCEPT ![t] = Idle]
  /\ last' = ExecutionStep("clipDone", tasks[t].id, tasks[t].result,
                           tasks[t].editor, tasks[t].fx, TRUE)
  /\ UNCHANGED <<phase, file, events, customCommands,
                 customCommandDisposables, recentlyUsedCommands, hostCommands,
                 activeTextEditor, selection>>

(***************************************************************************)
(* createCommandsFile                                                      *)
(***************************************************************************)

NoWorkspaceMessage == [kind |-> "error", text |-> "No workspace folder found"]

TemplateErrorMessage ==
  [kind |-> "error", text |-> "Error creating template file"]

\* The try block of createCommandsFile: the template is written over the
\* definitions file and the function waits for openTextDocument, or the
\* copy throws, the error is shown and the function returns.
WriteTemplate(t, ok) ==
  IF ok
    THEN /\ Len(events) < MaxEvents
         /\ file' = TemplateModule
         /\ events' = Notify(WriteEvent)
         /\ tasks' = [tasks EXCEPT ![t] = [pc |-> "open"]]
         /\ out' = <<>>
    ELSE /\ tasks' = [tasks EXCEPT ![t] = Idle]
         /\ out' = <<TemplateErrorMessage>>
         /\ UNCHANGED <<file, events>>

\* createCommandsFile() up to its first suspension.
CreateCommandsFile(t, ok) ==
  /\ last' = [op |-> "createCommandsFile"]
  /\ IF getCommandsFilePath(hasWorkspace) = Undefined
       THEN /\ tasks' = [tasks EXCEPT ![t] = Idle]
            /\ out' = <<NoWorkspaceMessage>>
            /\ UNCHANGED <<file, events>>
     ELSE IF existsSync(file)
       THEN /\ tasks' = [tasks EXCEPT ![t] = [pc |-> "confirm"]]
            /\ out' = <<>>
            /\ UNCHANGED <<file, events>>
     ELSE WriteTemplate(t, ok)
  /\ UNCHANGED <<phase, customCommands, customCommandDisposables,
                 recentlyUsedCommands, hostCommands, activeTextEditor,
                 selection>>

\* The built-in command custom-commander.createCommandsFile.
CreateCommand(ok) ==
  /\ UNCHANGED fixed
  /\ phase = "active"
  /\ HasFreeTask
  /\ CreateCommandsFile(FreeTask, ok)

\* The overwrite warning is answered: anything but "Yes" returns.
ConfirmOverwrite(t, choice, ok) ==
  /\ UNCHANGED fixed
  /\ tasks[t].pc = "confirm"
  /\ last' = [op |-> "confirmOverwrite"]
  /\ IF choice # "Yes"
       THEN /\ tasks' = [tasks EXCEPT ![t] = Idle]
            /\ out' = <<>>
            /\ UNCHANGED <<file, events>>
       ELSE WriteTemplate(t, ok)
  /\ UNCHANGED <<phase, customCommands, customCommandDisposables,
                 recentlyUsedCommands, hostCommands, activeTextEditor,
                 selection>>

\* openTextDocument and showTextDocument complete: the document's editor
\* is the active one, then reloadCommands(). When the file is gone again
\* openTextDocument rejects and nothing follows.
OpenDone(t, e) ==
  /\ UNCHANGED fixed
  /\ tasks[t].pc = "open"
  /\ tasks' = [tasks EXCEPT ![t] = Idle]
  /\ last' = [op |-> "openDone"]
  /\ IF ~existsSync(file)
       THEN /\ out' = <<>>
            /\ UNCHANGED <<customCommands, customCommandDisposables,
                           hostCommands, activeTextEditor, selection>>
       ELSE /\ activeTextEditor' = e
            /\ selection' = (IF e = activeTextEditor THEN selection ELSE 1)
            /\ ReloadCommands(FALSE, recentlyUsedCommands, <<>>)
  /\ UNCHANGED <<phase, file, events, recentlyUsedCommands>>

(***************************************************************************)
(* The picker handler registered by registerCustomCommands                 *)
(***************************************************************************)

\* A variant that never marks an item as recent.
QuickPickItemPlain(id) ==
  LET data == GetCommand(customCommands, id)
  IN [recent |-> FALSE,
      name |-> data.name,
      description |-> data.description,
      commandId |-> id]

\* One quick pick item of the populated picker.
QuickPickItem(id) ==
  LET data == GetCommand(customCommands, id)
  IN [recent |-> ArrayIncludes(recentlyUsedCommands, id),
      name |-> data.name,
      description |-> data.description,
      commandId |-> id]

CreateFileItem == [commandId |-> "create-commands-file"]

QuickPick(items) == [kind |-> "quickPick", items |-> items]

\* The host runs the handler of an active picker registration, up to its
\* showQuickPick. The handler reads customCommands and recentlyUsedCommands
\* as they are now and orderedCommandIds as captured at registration; an id
\* of that list without an entry makes `data.name` throw. The suspended
\* handler holds the items, of which it will read the commandId.
InvokePicker(i) ==
  /\ UNCHANGED fixed
  /\ i \in DOMAIN hostCommands
  /\ hostCommands[i].id = PickerId
  /\ HasFreeTask
  /\ LET t == FreeTask
         orderedCommandIds == hostCommands[i].captured
     IN IF Len(customCommands) = 0
          THEN /\ tasks' = [tasks EXCEPT ![t] = [pc |-> "pickEmpty"]]
               /\ last' = [op |-> "picker", state |-> "empty"]
               /\ out' = <<QuickPick(<<CreateFileItem>>)>>
        ELSE IF \E k \in DOMAIN orderedCommandIds :
                  ~HasCommand(customCommands, orderedCommandIds[k])
          THEN /\ tasks' = tasks
               /\ last' = [op |-> "picker", state |-> "threw"]
               /\ out' = <<>>
        ELSE /\ tasks' = [tasks EXCEPT ![t] =
                            [pc |-> "pick", ids |-> orderedCommandIds]]
             /\ last' = [op |-> "picker", state |-> "populated"]
             /\ out' = <<QuickPick([k \in DOMAIN orderedCommandIds |->
                                      QuickPickItem(orderedCommandIds[k])])>>
  /\ UNCHANGED <<phase, file, events, customCommands,
                 customCommandDisposables, recentlyUsedCommands, hostCommands,
                 activeTextEditor, selection>>

\* The items of the populated picker a prompt shows.
PickChoices(t) == IF tasks[t].pc = "pick" THEN DOMAIN tasks[t].ids ELSE {}

\* The user picks item k of the populated picker.
PickSelect(t, k) ==
  /\ UNCHANGED fixed
  /\ tasks[t].pc = "pick"
  /\ k \in DOMAIN tasks[t].ids
  /\ ExecuteCustomCommand(t, tasks[t].ids[k])

\* The user picks the one item of the empty picker.
PickCreate(t, ok) ==
  /\ UNCHANGED fixed
  /\ tasks[t].pc = "pickEmpty"
  /\ CreateCommandsFile(t, ok)

\* The user dismisses the picker: showQuickPick resolves with undefined.
PickDismiss(t) ==
  /\ UNCHANGED fixed
  /\ tasks[t].pc \in {"pick", "pickEmpty"}
  /\ tasks' = [tasks EXCEPT ![t] = Idle]
  /\ last' = [op |-> "dismiss", from |-> tasks[t].pc]
  /\ out' = <<>>
  /\ UNCHANGED <<phase, file, events, customCommands,
                 customCommandDisposables, recentlyUsedCommands, hostCommands,
                 activeTextEditor, selection>>

(***************************************************************************)
(* The program                                                             *)
(***************************************************************************)

Next ==
  \/ Activate
  \/ Deactivate
  \/ \E m \in CoreModules : WriteFile(m)
  \/ DeleteFile
  \/ OnDidChangeOrCreate
  \/ OnDidDelete
  \/ \E silent \in BOOLEAN : ReloadCommand(silent)
  \/ \E e \in 0..MaxEditors : SetActiveEditor(e)
  \/ \E sel \in 1..MaxSelections : SetSelection(sel)
  \/ \E i \in DOMAIN hostCommands : InvokeCommand(i)
  \/ \E i \in DOMAIN hostCommands : InvokePicker(i)
  \/ \E t \in DOMAIN tasks, o \in Outcomes : CompleteCallable(t, o)
  \/ \E t \in DOMAIN tasks : EditDone(t)
  \/ \E t \in DOMAIN tasks : ClipDone(t)
  \/ \E t \in DOMAIN tasks : \E k \in PickChoices(t) : PickSelect(t, k)
  \/ \E t \in DOMAIN tasks, ok \in BOOLEAN : PickCreate(t, ok)
  \/ \E t \in DOMAIN tasks : PickDismiss(t)
  \/ \E ok \in BOOLEAN : CreateCommand(ok)
  \/ \E t \in DOMAIN tasks, c \in {"Yes", "No"}, ok \in BOOLEAN :
       ConfirmOverwrite(t, c, ok)
  \/ \E t \in DOMAIN tasks, e \in 1..MaxEditors : OpenDone(t, e)

Spec == Init /\ [][Next]_vars

(***************************************************************************)
(* Overlapping executions, observed: the commands of the template, two     *)
(* invocations in flight, and `last` recording each step of an execution.  *)
(***************************************************************************)

InitExec ==
  /\ InitProgram({TemplateModule}, MaxOverlap)
  /\ input = NoInput
  /\ output = NoInput

NextExec ==
  \/ Activate
  \/ \E e \in 0..MaxEditors : SetActiveEditor(e)
  \/ \E sel \in 1..MaxSelections : SetSelection(sel)
  \/ \E i \in DOMAIN hostCommands : InvokeCommand(i)
  \/ \E i \in DOMAIN hostCommands : InvokePicker(i)
  \/ \E t \in DOMAIN tasks, o \in Outcomes : CompleteCallable(t, o)
  \/ \E t \in DOMAIN tasks : EditDone(t)
  \/ \E t \in DOMAIN tasks : ClipDone(t)
  \/ \E t \in DOMAIN tasks : \E k \in PickChoices(t) : PickSelect(t, k)
  \/ \E t \in DOMAIN tasks : PickDismiss(t)

SpecExec == InitExec /\ [][NextExec]_vars

(***************************************************************************)
(* Three commands: the order of the registrations as commands are executed *)
(* and the file is written, deleted and reloaded.                          *)
(***************************************************************************)

InitOrder ==
  /\ InitProgram({ThreeModule}, 1)
  /\ hasWorkspace
  /\ input = NoInput
  /\ output = NoInput

NextOrder ==
  \/ Activate
  \/ WriteFile(ThreeModule)
  \/ DeleteFile
  \/ OnDidChangeOrCreate
  \/ OnDidDelete
  \/ \E silent \in BOOLEAN : ReloadCommand(silent)
  \/ \E e \in 0..MaxEditors : SetActiveEditor(e)
  \/ \E i \in DOMAIN hostCommands : InvokeCommand(i)
  \/ \E i \in DOMAIN hostCommands : InvokePicker(i)
  \/ \E t \in DOMAIN tasks, o \in Outcomes : CompleteCallable(t, o)
  \/ \E t \in DOMAIN tasks : EditDone(t)
  \/ \E t \in DOMAIN tasks : ClipDone(t)
  \/ \E t \in DOMAIN tasks : \E k \in PickChoices(t) : PickSelect(t, k)
  \/ \E t \in DOMAIN tasks : PickDismiss(t)

SpecOrder == InitOrder /\ [][NextOrder]_vars

(***************************************************************************)
(* The metadata extractor on bounded inputs                                *)
(***************************************************************************)

\* The longest identifier drawn, and the most directive lines in a source.
MaxIdentLen == 3

MaxLines == 2

IdentChars == {"a", "z", "A", "Z"}

RECURSIVE SeqsUpTo(_, _)
SeqsUpTo(S, n) ==
  IF n = 0 THEN {<<>>}
  ELSE LET shorter == SeqsUpTo(S, n - 1)
       IN shorter \cup {Append(q, x) : q \in shorter, x \in S}

GetNowFromAPI ==
  <<"g", "e", "t", "N", "o", "w", "F", "r", "o", "m", "A", "P", "I">>

Identifiers == (SeqsUpTo(IdentChars, MaxIdentLen) \ {<<>>}) \cup {GetNowFromAPI}

OtherKey == <<"t", "a", "g">>

GetNow == <<"G", "e", "t", " ", "N", "o", "w">>

FetchNow == <<"F", "e", "t", "c", "h", " ", "n", "o", "w", ".">>

NoteColon == <<"N", "o", "t", "e", ":", " ", "x">>

\* A directive line as written in a callable: indentation, `// ~`, the key,
\* `: `, the value.
DirectiveLineSet ==
  [indent : {0, 2},
   key : {NameKey, DescriptionKey, OtherKey},
   value : {GetNow, FetchNow, NoteColon}]

RenderLine(l) ==
  [i \in 1..l.indent |-> " "] \o paramPrefix \o l.key \o KeyValueSep \o l.value

RECURSIVE RenderLines(_)
RenderLines(lines) ==
  IF lines = <<>> THEN <<>>
  ELSE RenderLine(Head(lines)) \o <<NL>> \o RenderLines(Tail(lines))

\* func.toString() of a callable whose body holds the given directive lines.
RenderSource(lines) ==
  <<"(", ")", " ", "{", NL>> \o RenderLines(lines)
    \o <<" ", " ", "r", "e", "t", "u", "r", "n", NL, "}">>

MetaInputs ==
  [funcName : Identifiers, lines : {<<>>}]
    \cup [funcName : {GetNowFromAPI, FnA},
          lines : SeqsUpTo(DirectiveLineSet, MaxLines)]

\* The program's variables, at rest while a pure function is checked.
Parked ==
  /\ InitProgram({}, 1)
  /\ ~hasWorkspace

InitMeta ==
  /\ Parked
  /\ input \in MetaInputs
  /\ output = NoInput

ExtractMeta ==
  /\ ~output.done
  /\ output' = [done |-> TRUE,
                meta |-> extractMetaFromFunction(input.funcName,
                                                 RenderSource(input.lines))]
  /\ UNCHANGED <<progVars, input>>

NextMeta == ExtractMeta

SpecMeta == InitMeta /\ [][NextMeta]_vars

(***************************************************************************)
(* The registration order on bounded inputs                                *)
(***************************************************************************)

\* The longest recency list drawn.
MaxRecent == 3

FnX == <<"x">>

SortIds == {CommandId(FnA), CommandId(FnB), CommandId(FnC)}

\* Sequences without repetition.
Distinct(q) == \A i, j \in DOMAIN q : q[i] = q[j] => i = j

\* The key orders of a command map, and the recency lists: both hold an id
\* at most once; a recency list may hold an id no command has.
SortInputs ==
  [ids : {q \in SeqsUpTo(SortIds, Cardinality(SortIds)) : Distinct(q)},
   recent : {q \in SeqsUpTo(SortIds \cup {CommandId(FnX)}, MaxRecent) :
               Distinct(q)}]

InitSort ==
  /\ Parked
  /\ input \in SortInputs
  /\ output = NoInput

\* registerCustomCommands on a command map with the given keys: the ids of
\* the registrations it leaves in the host, in registration order, the
\* picker's aside.
Register ==
  /\ ~output.done
  /\ LET cmds == [i \in DOMAIN input.ids |-> [id |-> input.ids[i]]]
         reg == registerCustomCommands(<<>>, <<>>, cmds, input.recent)
         custom == SelectSeq(reg.host, LAMBDA r : r.id # PickerId)
     IN output' = [done |-> TRUE,
                   order |-> [i \in DOMAIN custom |-> custom[i].id]]
  /\ UNCHANGED <<progVars, input>>

NextSort == Register

SpecSort == InitSort /\ [][NextSort]_vars

(***************************************************************************)
(* Sequences of touches                                                    *)
(***************************************************************************)

\* The longest sequence of touches followed.
MaxTouches == 5

InitTouch ==
  /\ InitProgram(CoreModules, 1)
  /\ input = [done |-> FALSE, log |-> <<>>]
  /\ output = NoInput

\* updateRecentlyUsedCommands(commandId), the touches so far being logged.
Touch(commandId) ==
  /\ Len(input.log) < MaxTouches
  /\ UpdateRecentlyUsedCommands(commandId)
  /\ input' = [input EXCEPT !.log = Append(input.log, commandId)]
  /\ last' = [op |-> "touch"]
  /\ UNCHANGED <<phase, hasWorkspace, file, events,
                 activeTextEditor, selection, tasks, output>>

NextTouch == \E id \in SortIds : Touch(id)

SpecTouch == InitTouch /\ [][NextTouch]_vars

(***************************************************************************)
(* Properties                                                              *)
(***************************************************************************)

\* The ids of `recent` that are command ids, in the order of `recent`, then
\* the other command ids in the order of the command map.
RecentFirst(ids, recent) ==
  SelectSeq(recent, LAMBDA id : ArrayIncludes(ids, id))
    \o SelectSeq(ids, LAMBDA id : ~ArrayIncludes(recent, id))

IdsABC == <<CommandId(FnA), CommandId(FnB), CommandId(FnC)>>

\* C2: for every command map and every recency list, registerCustomCommands
\* registers first the command ids that occur in the recency list, in the
\* order of that list, then the others in the order of the command map; for
\* commands A, B, C and the recency list [C, A] the order is [C, A, B].
C2_RegistrationOrder ==
  output.done =>
    /\ output.order = RecentFirst(input.ids, input.recent)
    /\ (input.ids = IdsABC
          /\ input.recent = <<CommandId(FnC), CommandId(FnA)>>)
         => output.order = <<CommandId(FnC), CommandId(FnA), CommandId(FnB)>>

\* A, B, C with recency list [C, A] has been registered as C, A, B.
C2_Witness ==
  /\ output.done
  /\ input.ids = IdsABC
  /\ input.recent = <<CommandId(FnC), CommandId(FnA)>>
  /\ output.order = <<CommandId(FnC), CommandId(FnA), CommandId(FnB)>>

\* The position of the last touch of id in the log.
LastTouch(log, id) ==
  CHOOSE i \in DOMAIN log :
    log[i] = id /\ \A j \in DOMAIN log : log[j] = id => j <= i

\* C3: after any sequence of touches from the empty list, the recency list
\* holds every touched id exactly once, ordered by the time of the last
\* touch, most recent first; the id touched last is at index 0.
C3_RecencyOrder ==
  LET recent == recentlyUsedCommands
      log == input.log
  IN /\ Distinct(recent)
     /\ {recent[i] : i \in DOMAIN recent} = {log[i] : i \in DOMAIN log}
     /\ \A i, j \in DOMAIN recent :
          i < j => LastTouch(log, recent[i]) > LastTouch(log, recent[j])
     /\ log # <<>> => ArrayIndexOf(recent, log[Len(log)]) = 0

\* Three ids have been touched, one of them again after the others.
C3_Witness ==
  /\ Len(recentlyUsedCommands) = 3
  /\ Len(input.log) = 4
  /\ input.log[1] = input.log[4]

GetNowFromAPIName ==
  <<"G", "e", "t", " ", "N", "o", "w", " ", "F", "r", "o", "m", " ",
    "A", "P", "I">>

GetNowFromAPISpaced ==
  <<"G", "e", "t", " ", "N", "o", "w", " ", "F", "r", "o", "m", " ",
    "A", " ", "P", " ", "I">>

\* The extractor has run on getNowFromAPI with no directive line.
C4_Case ==
  output.done /\ input.funcName = GetNowFromAPI /\ input.lines = <<>>

\* C4, as stated: getNowFromAPI with no directive lines yields the name
\* "Get Now From API" and the description "Execute Get Now From API
\* function".
C4_AsStated ==
  C4_Case =>
    /\ output.meta.name = GetNowFromAPIName
    /\ output.meta.description
         = ExecutePrefix \o GetNowFromAPIName \o FunctionSuffix

\* C4, amended: getNowFromAPI with no directive lines yields the name
\* "Get Now From A P I" and the description "Execute Get Now From A P I
\* function": every capital of the acronym gets its space.
C4_GetNowFromAPI ==
  C4_Case =>
    /\ output.meta.name = GetNowFromAPISpaced
    /\ output.meta.description
         = ExecutePrefix \o GetNowFromAPISpaced \o FunctionSuffix

C4_Witness == C4_Case /\ output.meta.name = GetNowFromAPISpaced

RECURSIVE Flatten(_)
Flatten(parts) ==
  IF parts = <<>> THEN <<>> ELSE Head(parts) \o Flatten(Tail(parts))

\* The identifier with a space before each capital after the first
\* character, and the first character capitalized.
SpacedWords(ident) ==
  Flatten([i \in DOMAIN ident |->
             IF i = 1 THEN <<ToUpperCase(ident[1])>>
             ELSE IF IsUpper(ident[i]) THEN <<" ", ident[i]>>
             ELSE <<ident[i]>>])

HasDirective(lines, key) == \E i \in DOMAIN lines : lines[i].key = key

\* C5: with no name directive the name is the identifier with a space
\* before each internal capital and its first character capitalized, no
\* space before the first character; with no description directive the
\* description is "Execute {name} function".
C5_DerivedName ==
  output.done =>
    /\ ~HasDirective(input.lines, NameKey)
         => output.meta.name = SpacedWords(input.funcName)
    /\ ~HasDirective(input.lines, DescriptionKey)
         => output.meta.description
              = ExecutePrefix \o output.meta.name \o FunctionSuffix

\* The one directive line with the key, when there is exactly one.
TheDirective(lines, key) ==
  lines[CHOOSE i \in DOMAIN lines : lines[i].key = key]

OneDirective(lines, key) ==
  Cardinality({i \in DOMAIN lines : lines[i].key = key}) = 1

\* C6: a directive line `// ~name: V` (`// ~description: V`) makes the name
\* (the description) V verbatim, also when V holds ": "; directive lines
\* with another key change neither.
C6_DirectiveVerbatim ==
  output.done =>
    /\ OneDirective(input.lines, NameKey)
         => output.meta.name = TheDirective(input.lines, NameKey).value
    /\ OneDirective(input.lines, DescriptionKey)
         => output.meta.description
              = TheDirective(input.lines, DescriptionKey).value
    /\ output.meta
         = extractMetaFromFunction(
             input.funcName,
             RenderSource(SelectSeq(input.lines,
                                    LAMBDA l : l.key # OtherKey)))

\* The number of active registrations of an id.
Registrations(id) ==
  Cardinality({i \in DOMAIN hostCommands : hostCommands[i].id = id})

\* C1: while the extension is active, whenever control is back with the host
\* the active registrations are exactly one per id of customCommands and
\* exactly one of the picker, all of them held by the disposables array: no
\* id is registered twice and no id outside customCommands is registered.
C1_ExactRegistrations ==
  phase = "active" =>
    /\ \A k \in DOMAIN customCommands : Registrations(customCommands[k].id) = 1
    /\ Registrations(PickerId) = 1
    /\ \A i \in DOMAIN hostCommands :
         /\ hostCommands[i].id = PickerId
              \/ HasCommand(customCommands, hostCommands[i].id)
         /\ ArrayIncludes(customCommandDisposables, hostCommands[i].token)

\* A reload after a file event, with two commands loaded and one of them
\* executed before.
C1_Witness ==
  /\ phase = "active"
  /\ last.op = "onDidChangeOrCreate"
  /\ Len(customCommands) = 2
  /\ recentlyUsedCommands # <<>>
  /\ Len(hostCommands) = 3

\* C7, as stated: the recency list is mutated only by a successful
\* execution; when the callable of an execution throws or rejects, the list
\* is what it was before that execution.
C7_AsStated ==
  (last.op = "complete" /\ last.outcome.kind = "throw")
    => recentlyUsedCommands = last.before

\* C7, amended: the recency list is empty at startup and is mutated only by
\* the execution of an id of the command map, when the execution starts and
\* before its callable is invoked, whatever the callable does then: the step
\* puts the id in front; no completion of a callable, no execution of an
\* unknown id, no reload and no file event changes the list.
C7_MutatedOnlyByExecute ==
  /\ recentlyUsedCommands = <<>>
  /\ [][recentlyUsedCommands' # recentlyUsedCommands =>
          /\ last'.op = "execute"
          /\ last'.found
          /\ HasCommand(customCommands, last'.id)
          /\ recentlyUsedCommands'
               = <<last'.id>>
                   \o SelectSeq(recentlyUsedCommands,
                                LAMBDA x : x # last'.id)]_vars

\* A callable has thrown and the list, empty before the execution, holds
\* the id.
C7_Witness ==
  /\ last.op = "complete"
  /\ last.outcome.kind = "throw"
  /\ last.before = <<>>
  /\ recentlyUsedCommands = <<last.id>>

\* The command of the template with the id.
TemplateCommand(id) == GetCommand(CommandsOfModule[TemplateModule], id)

\* C8, as stated: when the callable of execute(id) throws or rejects, the
\* recency list has id at position 0, exactly one error message naming the
\* command is shown, no popup, replace or clipboard effect is performed and
\* the execution is over.
C8_AsStated ==
  (last.op = "complete" /\ last.outcome.kind = "throw") =>
    /\ ArrayIndexOf(recentlyUsedCommands, last.id) = 0
    /\ out = <<[kind |-> "error", text |-> "Error in",
                name |-> TemplateCommand(last.id).name]>>
    /\ last.fx = <<>>
    /\ last.settled

\* C8, amended: execute(id) for an id of the command map puts id at
\* position 0 of the recency list before it invokes the callable; when the
\* callable throws or rejects, the list still holds id (no rollback; a
\* command executed in the meantime stands ahead of it), exactly one error
\* message naming the command is shown, no popup, replace or clipboard
\* effect is performed and the execution is over.
C8_FailedExecution ==
  /\ (last.op = "execute" /\ last.found)
       => ArrayIndexOf(recentlyUsedCommands, last.id) = 0
  /\ (last.op = "complete" /\ last.outcome.kind = "throw") =>
       /\ ArrayIncludes(recentlyUsedCommands, last.id)
       /\ out = <<[kind |-> "error", text |-> "Error in",
                   name |-> TemplateCommand(last.id).name]>>
       /\ last.fx = <<>>
       /\ last.settled

\* A callable has thrown after another command was executed meanwhile: its
\* id is second in the list.
C8_Witness ==
  /\ last.op = "complete"
  /\ last.outcome.kind = "throw"
  /\ ArrayIndexOf(recentlyUsedCommands, last.id) = 1

\* C9: execute(id) for an id that is not in customCommands shows the
\* "command not found" error and changes nothing else: the recency list,
\* the command map and the registrations stay as they are, nothing is
\* reloaded and no callable is invoked.
C9_NotFound ==
  [][(last'.op = "execute" /\ ~last'.found) =>
       /\ out' = <<NotFoundMessage>>
       /\ UNCHANGED <<recentlyUsedCommands, customCommands, hostCommands,
                      customCommandDisposables, phase, file, events,
                      activeTextEditor, selection>>
       /\ \A t \in DOMAIN tasks : tasks'[t].pc = "func" => tasks'[t] = tasks[t]]_vars

\* An id picked from a picker opened before the command went away: not
\* found, with commands executed before.
C9_Witness ==
  /\ last.op = "execute"
  /\ ~last.found
  /\ ~HasCommand(customCommands, last.id)
  /\ out = <<NotFoundMessage>>
  /\ recentlyUsedCommands # <<>>

\* The effects a result calls for, in order.
ExpectedEffects(result, editor) ==
  (IF result.popup THEN <<"popup">> ELSE <<>>)
    \o (IF result.replace /\ editor # 0 THEN <<"replace">> ELSE <<>>)
    \o (IF result.clipboard THEN <<"clipboard">> ELSE <<>>)

\* The effects among what a step showed or did.
EffectNames(shown) ==
  LET effects == SelectSeq(shown, LAMBDA m :
                             m.kind \in {"info", "replace", "clipboard"})
  IN [i \in DOMAIN effects |->
        IF effects[i].kind = "info" THEN "popup" ELSE effects[i].kind]

IsPrefix(p, q) == Len(p) <= Len(q) /\ p = SubSeq(q, 1, Len(p))

\* C10: an execution whose callable returned a value has performed, when it
\* is over, the popup iff popup is defined, the replacement iff replace is
\* defined and an editor was captured, the clipboard write iff clipboard is
\* defined, in this order; until then it has performed the first of them;
\* a result of undefined causes no effect; a result with only clipboard set
\* writes the clipboard and neither pops up nor replaces.
C10_Effects ==
  last.op \in {"complete", "editDone", "clipDone"} =>
    /\ (last.outcome.kind = "value" /\ last.settled)
         => last.fx = ExpectedEffects(last.outcome, last.editor)
    /\ (last.outcome.kind = "value" /\ ~last.settled)
         => IsPrefix(last.fx, ExpectedEffects(last.outcome, last.editor))
    /\ last.outcome.kind = "undefined" => (last.fx = <<>> /\ out = <<>>)
    /\ last.op = "complete" => EffectNames(out) = last.fx
    /\ (/\ last.outcome.kind = "value" /\ last.settled
        /\ last.outcome.clipboard
        /\ ~last.outcome.popup /\ ~last.outcome.replace)
         => last.fx = <<"clipboard">>

\* An execution with an editor, whose result had the three fields, is over.
C10_Witness ==
  /\ last.op = "clipDone"
  /\ last.settled
  /\ last.editor # 0
  /\ last.outcome.popup /\ last.outcome.replace /\ last.outcome.clipboard
  /\ last.fx = <<"popup", "replace", "clipboard">>

\* The step taken last ran reloadCommands.
Reloaded ==
  \/ last.op \in {"onDidChangeOrCreate", "reloadCommand"}
  \/ last.op = "execute" /\ last.found
  \/ last.op = "openDone" /\ existsSync(file)

\* The message loadCustomCommands shows when it has tried the file.
IsLoadError(m) ==
  m = [kind |-> "error", text |-> "Error loading custom-commander.js"]

OnlyThePicker ==
  /\ Len(hostCommands) = 1
  /\ hostCommands[1].id = PickerId
  /\ hostCommands[1].captured = <<>>

\* C11: the handler of a delete event leaves the command map empty and the
\* picker as the one active registration, shows nothing and loads nothing;
\* a reload while the file does not exist leaves the command map empty and
\* only the picker registered, and shows no load error: the file is not
\* tried.
C11_DeleteAndMissingFile ==
  /\ last.op = "onDidDelete" =>
       /\ customCommands = <<>>
       /\ OnlyThePicker
       /\ out = <<>>
  /\ (Reloaded /\ ~existsSync(file)) =>
       /\ customCommands = <<>>
       /\ OnlyThePicker
       /\ \A i \in DOMAIN out : ~IsLoadError(out[i])

\* A delete event has been handled after a command was executed.
C11_Witness ==
  /\ last.op = "onDidDelete"
  /\ recentlyUsedCommands # <<>>
  /\ customCommands = <<>>
  /\ OnlyThePicker

\* The step taken last loaded the definitions file, or tried to.
Loaded == Reloaded \/ last.op = "activate"

\* The reload of the step taken last was not silent.
Announced ==
  \/ last.op \in {"onDidChangeOrCreate", "openDone"}
  \/ last.op = "reloadCommand" /\ ~last.silent

LoadError == [kind |-> "error", text |-> "Error loading custom-commander.js"]

\* C12: when the evaluation of the definitions file throws, whatever the
\* command map held before, the map is empty after the load, one error
\* message is shown, the caller goes on (the registration follows and
\* leaves only the picker, a reload that is not silent announces 0
\* commands).
C12_LoadFailure ==
  (Loaded /\ LoadAttempted(hasWorkspace, file) /\ Modules[file].throws) =>
    /\ customCommands = <<>>
    /\ OnlyThePicker
    /\ out = <<LoadError>>
               \o (IF Announced
                     THEN <<[kind |-> "status", text |-> "Reloaded",
                             count |-> 0]>>
                     ELSE <<>>)

\* A command found in the map has been executed while the file on disk had
\* become one that throws: the reload of the execution dropped the commands.
C12_Witness ==
  /\ last.op = "execute"
  /\ last.found
  /\ LoadAttempted(hasWorkspace, file)
  /\ Modules[file].throws
  /\ customCommands = <<>>
  /\ out = <<LoadError>>

\* The ids of the custom command registrations, in registration order.
CustomOrder(host) ==
  LET custom == SelectSeq(host, LAMBDA r : r.id # PickerId)
  IN [i \in DOMAIN custom |-> custom[i].id]

\* The list the handler of the active picker registration presents.
PickerList(host) ==
  LET pickers == SelectSeq(host, LAMBDA r : r.id = PickerId)
  IN pickers[1].captured

Elements(q) == {q[i] : i \in DOMAIN q}

\* C13: when an id of the command map is executed while the extension is
\* active and the file is as it was loaded, the step that records the
\* invocation leaves, with the callable still pending, id first in the
\* registration order, the other ids in their previous relative order, the
\* picker's list in that same order, and the same set of ids in the map.
C13_NewOrderAtOnce ==
  [][(/\ last'.op = "execute"
      /\ last'.found
      /\ phase = "active"
      /\ customCommands = LoadedCommands(hasWorkspace, file)) =>
       LET id == last'.id
           after == CustomOrder(hostCommands')
       IN /\ after = <<id>> \o SelectSeq(CustomOrder(hostCommands),
                                         LAMBDA x : x # id)
          /\ PickerList(hostCommands') = after
          /\ Elements(Keys(customCommands')) = Elements(Keys(customCommands))
          /\ \E t \in DOMAIN tasks' :
               tasks'[t].pc = "func" /\ tasks'[t].command.id = id]_vars

\* With the three commands executed before, one of them is executed again
\* and its callable is pending: the registrations are in recency order.
C13_Witness ==
  /\ last.op = "execute"
  /\ last.found
  /\ Len(recentlyUsedCommands) = 3
  /\ CustomOrder(hostCommands) = recentlyUsedCommands
  /\ recentlyUsedCommands[1] = last.id
  /\ last.id # Keys(customCommands)[1]
  /\ \E t \in DOMAIN tasks : tasks[t].pc = "func"

\* C14: a step that reloads because the file changed, was created or was
\* deleted, on an explicit request, at the end of the create-file flow or at
\* activation, whether the load fails or not, leaves the recency list as it
\* was, and the registrations it leaves are ordered by that list: an id of
\* the list whose command is loaded again is registered at its recency
\* position.
C14_RecencyKept ==
  [][last'.op \in {"onDidChangeOrCreate", "onDidDelete", "reloadCommand",
                   "openDone", "activate"} =>
       /\ recentlyUsedCommands' = recentlyUsedCommands
       /\ phase' = "active" =>
            CustomOrder(hostCommands')
              = RecentFirst(Keys(customCommands'), recentlyUsedCommands')]_vars

\* The second command of the file was executed, and after a reload it is
\* registered first.
C14_Witness ==
  /\ last.op = "onDidChangeOrCreate"
  /\ Len(customCommands) = 2
  /\ recentlyUsedCommands = <<Keys(customCommands)[2]>>
  /\ CustomOrder(hostCommands)
       = <<Keys(customCommands)[2], Keys(customCommands)[1]>>

\* The names of the callable exports of a file, in export order.
CallableNames(f) ==
  LET callables == SelectSeq(Modules[f].exports, LAMBDA ex : ex.callable)
  IN [i \in DOMAIN callables |-> callables[i].funcName]

\* What the starter template loads to: toUpperCase without directives, then
\* getNowFromAPI with both.
TemplateEntries ==
  << [id |-> <<"custom-commander.custom.", FnA>>,
      name |-> <<"A">>,
      description |-> ExecutePrefix \o <<"A">> \o FunctionSuffix],
     [id |-> <<"custom-commander.custom.", FnB>>,
      name |-> <<"N", "2">>,
      description |-> <<"D", "2">>] >>

\* C15: after every load of a file that evaluates, whatever the command map
\* held before, the map has exactly one entry per callable export, in export
\* order, with the id "custom-commander.custom." followed by the export
\* name, and none for another export; the ids, names and descriptions depend
\* on the file alone (for the template they are the two entries above).
C15_LoadDeterministic ==
  (Loaded /\ LoadAttempted(hasWorkspace, file) /\ ~Modules[file].throws) =>
    /\ Keys(customCommands)
         = [i \in DOMAIN CallableNames(file) |->
              <<"custom-commander.custom.", CallableNames(file)[i]>>]
    /\ \A i \in DOMAIN customCommands :
         /\ customCommands[i].func
              = [module |-> file, export |-> CallableNames(file)[i]]
         /\ \A j \in DOMAIN customCommands :
              customCommands[i].id = customCommands[j].id => i = j
    /\ customCommands = CommandsOfModule[file]
    /\ file = TemplateModule =>
         [i \in DOMAIN customCommands |->
            [id |-> customCommands[i].id,
             name |-> customCommands[i].name,
             description |-> customCommands[i].description]]
           = TemplateEntries

\* A file with an export that is no function has been loaded over a map that
\* held the template's commands in use: two entries, the other's order.
C15_Witness ==
  /\ last.op = "onDidChangeOrCreate"
  /\ file = 2
  /\ Keys(customCommands)
       = <<<<"custom-commander.custom.", FnB>>,
           <<"custom-commander.custom.", FnA>>>>
  /\ recentlyUsedCommands # <<>>

\* The status messages of a reload among what a step showed.
ReloadStatuses(shown) ==
  SelectSeq(shown, LAMBDA m : m.kind = "status" /\ m.text = "Reloaded")

\* C16: the reload of a touch (a command execution) shows no status
\* message; every reload for a file change, a file creation or an explicit
\* reload request shows exactly one, with the size of the command map the
\* reload leaves.
C16_StatusMessages ==
  /\ (last.op = "execute" /\ last.found) => ReloadStatuses(out) = <<>>
  /\ last.op \in {"onDidChangeOrCreate", "reloadCommand"} =>
       ReloadStatuses(out)
         = <<[kind |-> "status", text |-> "Reloaded",
              count |-> Len(customCommands)]>>

\* C17: the picker opened over a command map that is not empty presents
\* exactly one choice per entry of the map, in registration order, with the
\* entry's name and description, marked recent iff its id is in the recency
\* list then; dismissing the picker, populated or empty, shows nothing,
\* starts no callable and leaves the recency list, the command map and the
\* registrations as they were.
C17_PickerChoices ==
  [][/\ last'.op = "picker" =>
          last'.state = (IF customCommands' = <<>> THEN "empty"
                                                   ELSE "populated")
     /\ (last'.op = "picker" /\ last'.state = "populated") =>
          /\ Len(out') = 1
          /\ out'[1].kind = "quickPick"
          /\ LET items == out'[1].items
             IN /\ [k \in DOMAIN items |-> items[k].commandId]
                     = CustomOrder(hostCommands')
                /\ Len(items) = Len(customCommands')
                /\ \A i \in DOMAIN customCommands' :
                     Cardinality({k \in DOMAIN items :
                                    items[k].commandId = customCommands'[i].id})
                       = 1
                /\ \A k \in DOMAIN items :
                     /\ items[k].recent
                          <=> \E j \in DOMAIN recentlyUsedCommands' :
                                recentlyUsedCommands'[j] = items[k].commandId
                     /\ \E i \in DOMAIN customCommands' :
                          /\ customCommands'[i].id = items[k].commandId
                          /\ customCommands'[i].name = items[k].name
                          /\ customCommands'[i].description
                               = items[k].description
     /\ last'.op = "dismiss" =>
          /\ out' = <<>>
          /\ UNCHANGED <<recentlyUsedCommands, customCommands, hostCommands,
                         customCommandDisposables>>
          /\ \A t \in DOMAIN tasks :
               tasks'[t].pc = "func" => tasks'[t] = tasks[t]]_vars

\* The populated picker is open with a recent choice first and one that is
\* not recent after it.
C17_Witness ==
  /\ last.op = "picker"
  /\ last.state = "populated"
  /\ Len(out[1].items) = 2
  /\ out[1].items[1].recent
  /\ ~out[1].items[2].recent
  /\ out[1].items[1].commandId # Keys(customCommands)[1]

\* C18: the id list an active picker registration captured is a permutation
\* of the keys of the command map as it is now, so the handler, whenever it
\* is invoked, finds an entry for every id it lists (it never throws on a
\* missing entry): no step changes the map without registering the picker
\* again.
C18_PickerListCurrent ==
  /\ \A i \in DOMAIN hostCommands :
       hostCommands[i].id = PickerId =>
         /\ Len(hostCommands[i].captured) = Len(customCommands)
         /\ Elements(hostCommands[i].captured) = Elements(Keys(customCommands))
  /\ last.op = "picker" => last.state # "threw"

\* The picker has been invoked and is populated, after the file was
\* replaced by one with other commands and a command was executed.
C18_Witness ==
  /\ last.op = "picker"
  /\ last.state = "populated"
  /\ file = 2
  /\ recentlyUsedCommands # <<>>
  /\ PickerList(hostCommands) = CustomOrder(hostCommands)

\* C19: deactivate leaves no custom command and no picker registered, and
\* after it none becomes registered by a step that completes a picker
\* prompt or an execution begun before it.
C19_NothingAfterTeardown ==
  [][/\ last'.op = "deactivate" => hostCommands' = <<>>
     /\ (/\ phase = "deactivated"
         /\ hostCommands = <<>>
         /\ last'.op \in {"execute", "dismiss", "complete", "editDone",
                          "clipDone"})
          => hostCommands' = <<>>]_vars

====
